---- MODULE Spec2Model ----
(***************************************************************************)
(* Model of two goreleaser pipes:                                          *)
(*   internal/pipe/alpine  (Pipe.Default, Pipe.Run): builds and signs an   *)
(*       apk per configured Alpine section and per eligible binary and     *)
(*       registers the results as artifacts;                               *)
(*   internal/pipe/s3      (Pipe.Publish, upload): uploads the artifacts   *)
(*       selected by kind to every configured S3 destination.              *)
(* A behaviour exercises one of the two pipes (variable stage).            *)
(*                                                                         *)
(* Strings are sequences of atomic fragments ("" is << >>), a path is the  *)
(* sequence of its components, filepath.Join is concatenation of paths.    *)
(***************************************************************************)
EXTENDS Integers, Sequences, FiniteSets, TLC

\* ------------------------------------------------------------------ bounds
MaxArtifacts == 2
MaxSpecs == 2
MaxDest == 2
MaxParallelism == 2

\* ------------------------------------------------------- strings and paths
EmptyStr == << >>

Str(s) == << s >>

\* a single name used as a path: the empty string contributes no component
AsPath(s) == IF s = EmptyStr THEN << >> ELSE << s >>

RECURSIVE Join(_)
Join(parts) ==
  IF parts = << >> THEN << >> ELSE Head(parts) \o Join(Tail(parts))

Dir(p) == IF Len(p) <= 1 THEN << Str(".") >> ELSE SubSeq(p, 1, Len(p) - 1)

Base(p) == IF p = << >> THEN Str(".") ELSE p[Len(p)]

Itoa(n) == CASE n = 0 -> "0" [] n = 1 -> "1" [] n = 2 -> "2" [] OTHER -> "n"

SeqRange(s) == { s[i] : i \in 1..Len(s) }

SeqsUpTo(S, n) == UNION { [1..k -> S] : k \in 0..n }

\* the subsequences of at most n elements of a sequence without repetitions
SubSeqsUpTo(s, n) ==
  { LET Test(a) == a \in T IN SelectSeq(s, Test) :
      T \in { U \in SUBSET SeqRange(s) : Cardinality(U) <= n } }

\* ------------------------------------------------------------- artifacts
Version == Str("1.2.3")
DistDir == << Str("dist") >>
Pwd == << Str("work") >>

Artifact(t, n, p, os, arch, arm, repo, extra) ==
  [Type |-> t, Name |-> n, Path |-> p, Goos |-> os, Goarch |-> arch,
   Goarm |-> arm, RepoDir |-> repo, Extra |-> extra]

BuiltBinary(t, n, os, arch, arm) ==
  Artifact(t, Str(n), DistDir \o << Str(n) \o Str(os) \o Str(arch) \o Str(arm) >> \o << Str(n) >>,
           os, arch, arm, << >>, "")

\* what the build stage may have left in the registry before the Alpine pipe
BinaryCandidates ==
  << BuiltBinary("Binary", "app", "linux", "amd64", ""),
     BuiltBinary("Binary", "app", "linux", "386", ""),
     BuiltBinary("Binary", "app", "linux", "arm", "6"),
     BuiltBinary("Binary", "app", "darwin", "amd64", ""),
     BuiltBinary("Binary", "cli", "linux", "amd64", ""),
     BuiltBinary("Binary", "app", "linux", "arm64", ""),
     BuiltBinary("UploadableBinary", "app", "linux", "amd64", "") >>

AlpineSection(name, rel, root, branch, repo) ==
  [Name |-> name, Rel |-> rel, Root |-> root, Branch |-> branch, Repository |-> repo]

AlpineCandidates ==
  { AlpineSection(Str("pkg"), 0, EmptyStr, EmptyStr, EmptyStr),
    AlpineSection(Str("lib"), 1, EmptyStr, EmptyStr, EmptyStr),
    AlpineSection(Str("pkg"), 0, Str("repo"), Str("v3"), Str("community")) }

KeyPaths == { << >>, << Str("keys"), Str("packager.rsa") >> }

apkBuildFileName == Str("APKBUILD")
apkIndexFileName == Str("APKINDEX.tar.gz")
abuildOutputDir == Str("dist")

VARIABLES
  stage,        \* "alpine" | "s3": the pipe this behaviour exercises
  artifacts,    \* ctx.Artifacts: the registry, in registration order
  artifacts0,   \* the registry as the pipe found it
  alpineCfg,    \* ctx.Config.Alpine
  pubKeyPath, privKeyPath,
  pc,           \* position of the Alpine pipe
  specIdx,      \* index of the Alpine section being handled
  binIdx,       \* index into binList of the binary being handled
  binList,      \* the binaries selected for the section
  dirs,         \* directories that exist under the output directory
  files,        \* files written under the output directory
  toolLog,      \* external tool invocations, in order
  runResult,    \* what the Alpine pipe returned
  s3Cfg,        \* ctx.Config.S3
  parallelism,  \* ctx.Parallelism
  ppc,          \* position of Publish
  pubIdx,       \* index of the destination Publish schedules next
  outer,        \* the task group of Publish (one unit per destination)
  dpc,          \* per destination: position of its upload
  dres,         \* per destination: what its upload returned
  dlist,        \* per destination: the artifacts selected for it
  didx,         \* per destination: index of the artifact scheduled next
  inner,        \* per destination: the task group of upload (one unit per artifact)
  upc,          \* per destination and artifact: position of the unit
  opened,       \* <<destination, artifact>> pairs whose file os.Open was called on
  puts,         \* the PutObject calls made
  ures,         \* per destination and artifact: how the unit ended
  pubResult     \* what Publish returned

alpineVars == << alpineCfg, pubKeyPath, privKeyPath, pc, specIdx, binIdx, binList,
                 dirs, files, toolLog, runResult >>

s3Vars == << s3Cfg, parallelism, ppc, pubIdx, outer, dpc, dres, dlist, didx, inner,
             upc, opened, puts, ures, pubResult >>

vars == << stage, artifacts, artifacts0, alpineVars, s3Vars >>

NoResult == [kind |-> "none", step |-> "", spec |-> 0, bin |-> 0]
NilResult == [kind |-> "nil", step |-> "", spec |-> 0, bin |-> 0]
SkipResult(what) == [kind |-> "skip", step |-> what, spec |-> 0, bin |-> 0]
ErrResult(step, s, b) == [kind |-> "err", step |-> step, spec |-> s, bin |-> b]

\* --------------------------------------------------------- Alpine: Default
DefaultSection(a) ==
  [a EXCEPT !.Root = IF a.Root = EmptyStr THEN Str("alpine") ELSE a.Root,
            !.Branch = IF a.Branch = EmptyStr THEN Str("edge") ELSE a.Branch,
            !.Repository = IF a.Repository = EmptyStr THEN Str("main") ELSE a.Repository]

KeysMissing == pubKeyPath = << >> \/ privKeyPath = << >>

\* mutant of DefaultFails: Default without the check of lines 62-64
DefaultNeverFails == FALSE

\* the loop returns at the first section when a key is missing
DefaultFails == Len(alpineCfg) > 0 /\ KeysMissing

DefaultedCfg ==
  [i \in 1..Len(alpineCfg) |->
     IF DefaultFails /\ i > 1 THEN alpineCfg[i] ELSE DefaultSection(alpineCfg[i])]

Default ==
  /\ stage = "alpine" /\ pc = "default"
  /\ alpineCfg' = DefaultedCfg
  /\ IF DefaultFails
       THEN /\ pc' = "done"
            /\ runResult' = ErrResult("ErrNoAlpineKeys", 0, 0)
       ELSE /\ pc' = "run"
            /\ UNCHANGED runResult
  /\ UNCHANGED << stage, artifacts, artifacts0, pubKeyPath, privKeyPath, specIdx,
                  binIdx, binList, dirs, files, toolLog, s3Vars >>

\* ------------------------------------------------------------- Alpine: Run
\* mutant of Translate: the table without its amd64 row
TranslateWithoutAmd64(arch) == IF arch = "386" THEN "x86" ELSE arch

\* lines 116-122
Translate(arch) ==
  CASE arch = "386" -> "x86"
    [] arch = "amd64" -> "x86_64"
    [] OTHER -> arch

\* mutant of Eligible: the selection without the target-OS filter
EligibleAnyOs(a) == a.Goarm = "" /\ a.Type = "Binary"

\* lines 77-83
Eligible(a) == a.Goos = "linux" /\ a.Goarm = "" /\ a.Type = "Binary"

Section == alpineCfg[specIdx]
Bin == binList[binIdx]
Arch == Translate(Bin.Goarch)

localPath == DistDir \o << Str("alpine-") \o Section.Name >>
localPathAbs == Pwd \o localPath
repoPath == Join(<< AsPath(Section.Root), AsPath(Section.Branch), AsPath(Section.Repository) >>)
pubKeyName == Dir(pubKeyPath)
\* mutant of artifactRepoPath: the repo sub-path without the architecture
artifactRepoPathWithoutArch == repoPath

\* line 124
artifactRepoPath == repoPath \o << Str(Arch) >>
\* mutant of binDir: a directory per binary instead of per architecture
binDirPerBinary == localPath \o << Str(Arch) \o Bin.Name >>

\* line 126
binDir == localPath \o << Str(Arch) >>
destPath == binDir \o << Base(Bin.Path) >>
abuildOutputPath == localPath \o << abuildOutputDir, Str(Arch) >>
apkFileName == Section.Name \o Str("-") \o Version \o Str("-r") \o Str(Itoa(Section.Rel)) \o Str(".apk")
apkFilePath == abuildOutputPath \o << apkFileName >>
apkIndexPath == abuildOutputPath \o << apkIndexFileName >>
apkIndexPathAbs == Pwd \o apkIndexPath

ApkArtifact ==
  Artifact("APK", apkFileName, apkFilePath, "linux", Bin.Goarch, "", artifactRepoPath, Arch)
ApkIndexArtifact ==
  Artifact("APKIndex", apkIndexFileName, apkIndexPath, "linux", Bin.Goarch, "", artifactRepoPath, Arch)

\* a step that leaves Run with an error
Fail(step) ==
  /\ pc' = "done"
  /\ runResult' = ErrResult(step, specIdx, IF pc \in {"getwd", "mkdirall", "genbuild", "lookpath"} THEN 0 ELSE binIdx)

Goto(p) == pc' = p /\ UNCHANGED runResult

\* mutant of RunNotConfigured: Run without the check of lines 71-73
RunAlwaysConfigured == FALSE

\* line 71
RunNotConfigured == Len(alpineCfg) = 0

RunEnter ==
  /\ stage = "alpine" /\ pc = "run"
  /\ IF RunNotConfigured
       THEN pc' = "done" /\ runResult' = SkipResult("alpine section is not configured")
       ELSE Goto("filter")
  /\ specIdx' = 1
  /\ UNCHANGED << stage, artifacts, artifacts0, alpineCfg, pubKeyPath, privKeyPath,
                  binIdx, binList, dirs, files, toolLog, s3Vars >>

\* line 76: next section, or return nil after the last one
RunSection ==
  /\ stage = "alpine" /\ pc = "filter"
  /\ IF specIdx > Len(alpineCfg)
       THEN pc' = "done" /\ runResult' = NilResult /\ UNCHANGED << binList, binIdx >>
       ELSE /\ binList' = SelectSeq(artifacts, Eligible)
            /\ binIdx' = 1
            /\ Goto("getwd")
  /\ UNCHANGED << stage, artifacts, artifacts0, alpineCfg, pubKeyPath, privKeyPath,
                  specIdx, dirs, files, toolLog, s3Vars >>

Getwd ==
  /\ stage = "alpine" /\ pc = "getwd"
  /\ \E ok \in BOOLEAN : IF ok THEN Goto("mkdirall") ELSE Fail("getwd")
  /\ UNCHANGED << stage, artifacts, artifacts0, alpineCfg, pubKeyPath, privKeyPath,
                  specIdx, binIdx, binList, dirs, files, toolLog, s3Vars >>

MkdirAll ==
  /\ stage = "alpine" /\ pc = "mkdirall"
  /\ \E ok \in BOOLEAN :
       IF ok THEN Goto("genbuild") /\ dirs' = dirs \cup { localPath }
             ELSE Fail("mkdirall") /\ UNCHANGED dirs
  /\ UNCHANGED << stage, artifacts, artifacts0, alpineCfg, pubKeyPath, privKeyPath,
                  specIdx, binIdx, binList, files, toolLog, s3Vars >>

GenerateApkBuildFile ==
  /\ stage = "alpine" /\ pc = "genbuild"
  /\ \E ok \in BOOLEAN : IF ok THEN Goto("writefile") ELSE Fail("template")
  /\ UNCHANGED << stage, artifacts, artifacts0, alpineCfg, pubKeyPath, privKeyPath,
                  specIdx, binIdx, binList, dirs, files, toolLog, s3Vars >>

\* line 106: the error of WriteFile is overwritten by LookPath's at line 108
WriteFile ==
  /\ stage = "alpine" /\ pc = "writefile"
  /\ \E ok \in BOOLEAN :
       files' = IF ok THEN files \cup { localPath \o << apkBuildFileName >> } ELSE files
  /\ Goto("lookpath")
  /\ UNCHANGED << stage, artifacts, artifacts0, alpineCfg, pubKeyPath, privKeyPath,
                  specIdx, binIdx, binList, dirs, toolLog, s3Vars >>

LookPath ==
  /\ stage = "alpine" /\ pc = "lookpath"
  /\ \E ok \in BOOLEAN : IF ok THEN Goto("loop") ELSE Fail("lookpath")
  /\ UNCHANGED << stage, artifacts, artifacts0, alpineCfg, pubKeyPath, privKeyPath,
                  specIdx, binIdx, binList, dirs, files, toolLog, s3Vars >>

\* line 115: next binary, or the next section after the last one
BinLoop ==
  /\ stage = "alpine" /\ pc = "loop"
  /\ IF binIdx > Len(binList)
       THEN specIdx' = specIdx + 1 /\ Goto("filter")
       ELSE specIdx' = specIdx /\ Goto("mkdir")
  /\ UNCHANGED << stage, artifacts, artifacts0, alpineCfg, pubKeyPath, privKeyPath,
                  binIdx, binList, dirs, files, toolLog, s3Vars >>

\* mutant of MkdirOK: a directory creation that accepts an existing directory
MkdirOverExisting(ok) == ok

\* os.Mkdir fails on an existing directory (or on any other filesystem error)
MkdirOK(ok) == ok /\ binDir \notin dirs

Mkdir ==
  /\ stage = "alpine" /\ pc = "mkdir"
  /\ \E ok \in BOOLEAN :
       IF MkdirOK(ok) THEN Goto("open") /\ dirs' = dirs \cup { binDir }
                      ELSE Fail("mkdir") /\ UNCHANGED dirs
  /\ UNCHANGED << stage, artifacts, artifacts0, alpineCfg, pubKeyPath, privKeyPath,
                  specIdx, binIdx, binList, files, toolLog, s3Vars >>

OpenBinary ==
  /\ stage = "alpine" /\ pc = "open"
  /\ \E ok \in BOOLEAN : IF ok THEN Goto("create") ELSE Fail("open")
  /\ UNCHANGED << stage, artifacts, artifacts0, alpineCfg, pubKeyPath, privKeyPath,
                  specIdx, binIdx, binList, dirs, files, toolLog, s3Vars >>

CreateDest ==
  /\ stage = "alpine" /\ pc = "create"
  /\ \E ok \in BOOLEAN :
       IF ok THEN Goto("copy") /\ files' = files \cup { destPath }
             ELSE Fail("create") /\ UNCHANGED files
  /\ UNCHANGED << stage, artifacts, artifacts0, alpineCfg, pubKeyPath, privKeyPath,
                  specIdx, binIdx, binList, dirs, toolLog, s3Vars >>

CopyBinary ==
  /\ stage = "alpine" /\ pc = "copy"
  /\ \E ok \in BOOLEAN : IF ok THEN Goto("abuild") ELSE Fail("copy")
  /\ UNCHANGED << stage, artifacts, artifacts0, alpineCfg, pubKeyPath, privKeyPath,
                  specIdx, binIdx, binList, dirs, files, toolLog, s3Vars >>

\* one exec.Command(...).CombinedOutput(): args is the path argument, key the
\* -p argument of abuild-sign, env the CBUILD override of abuild
Invocation(tool, args, key, env, dir, ok) ==
  [tool |-> tool, args |-> args, key |-> key, env |-> env, dir |-> dir, ok |-> ok,
   spec |-> specIdx, bin |-> binIdx]

\* mutant of AbuildNext: the build tool's exit status is ignored
AbuildNextIgnoresExit(ok) == Goto("addapk")

\* mutant of AbuildSignNext: the signing tool's exit status is ignored
AbuildSignNextIgnoresExit(ok) == Goto("addindex")

\* lines 153-155: the build tool's exit status decides
AbuildNext(ok) == IF ok THEN Goto("addapk") ELSE Fail("abuild")

\* lines 183-185: the signing tool's exit status decides
AbuildSignNext(ok) == IF ok THEN Goto("addindex") ELSE Fail("abuild-sign")

\* lines 149-155
Abuild ==
  /\ stage = "alpine" /\ pc = "abuild"
  /\ \E ok \in BOOLEAN :
       /\ toolLog' = Append(toolLog, Invocation("abuild", localPathAbs, << >>, Arch, localPath, ok))
       /\ AbuildNext(ok)
  /\ UNCHANGED << stage, artifacts, artifacts0, alpineCfg, pubKeyPath, privKeyPath,
                  specIdx, binIdx, binList, dirs, files, s3Vars >>

\* lines 157-175
AddApk ==
  /\ stage = "alpine" /\ pc = "addapk"
  /\ artifacts' = Append(artifacts, ApkArtifact)
  /\ Goto("sign")
  /\ UNCHANGED << stage, artifacts0, alpineCfg, pubKeyPath, privKeyPath,
                  specIdx, binIdx, binList, dirs, files, toolLog, s3Vars >>

\* lines 177-185
AbuildSign ==
  /\ stage = "alpine" /\ pc = "sign"
  /\ \E ok \in BOOLEAN :
       /\ toolLog' = Append(toolLog, Invocation("abuild-sign", apkIndexPathAbs, pubKeyName, "", localPath, ok))
       /\ AbuildSignNext(ok)
  /\ UNCHANGED << stage, artifacts, artifacts0, alpineCfg, pubKeyPath, privKeyPath,
                  specIdx, binIdx, binList, dirs, files, s3Vars >>

\* lines 187-197
AddApkIndex ==
  /\ stage = "alpine" /\ pc = "addindex"
  /\ artifacts' = Append(artifacts, ApkIndexArtifact)
  /\ binIdx' = binIdx + 1
  /\ Goto("loop")
  /\ UNCHANGED << stage, artifacts0, alpineCfg, pubKeyPath, privKeyPath,
                  specIdx, binList, dirs, files, toolLog, s3Vars >>

AlpineNext ==
  \/ Default \/ RunEnter \/ RunSection \/ Getwd \/ MkdirAll \/ GenerateApkBuildFile
  \/ WriteFile \/ LookPath \/ BinLoop \/ Mkdir \/ OpenBinary \/ CreateDest
  \/ CopyBinary \/ Abuild \/ AddApk \/ AbuildSign \/ AddApkIndex


\* ==================================================================== S3
DestIds == 1..MaxDest
UnitIds == 1..MaxArtifacts

\* ------------------------------------------------ templates (tmpl.Apply)
\* a template is a path of components; a fragment is text, a placeholder
\* or a malformed action
BadFragments == { "{{.Bad" }

ApplyFragment(f) == IF f = "{{.Version}}" THEN Version[1] ELSE f

ApplyFails(t) == \E i \in 1..Len(t) : \E j \in 1..Len(t[i]) : t[i][j] \in BadFragments

Apply(t) == [i \in 1..Len(t) |-> [j \in 1..Len(t[i]) |-> ApplyFragment(t[i][j])]]

\* --------------------------------------------- task group (semerrgroup)
GroupNew(limit) == [limit |-> limit, inflight |-> 0, errs |-> {}]

\* Go blocks the caller while limit units are in flight; limit <= 0 is unbounded
GroupCanGo(g) == g.limit <= 0 \/ g.inflight < g.limit

GroupGo(g) == [g EXCEPT !.inflight = @ + 1]

\* a unit returned: its failure is kept, its siblings are left alone
GroupUnitDone(g, errs) == [g EXCEPT !.inflight = @ - 1, !.errs = @ \cup errs]

GroupIdle(g) == g.inflight = 0

NoPub == [kind |-> "none", errs |-> {}]
NilPub == [kind |-> "nil", errs |-> {}]
SkipPub == [kind |-> "skip", errs |-> {}]
ErrPub(errs) == [kind |-> "err", errs |-> errs]

\* Wait: nil when no unit failed, otherwise one error combining every failure
GroupWait(g) == IF g.errs = {} THEN NilPub ELSE ErrPub(g.errs)

Failure(kind, d, i) == [kind |-> kind, dest |-> d, unit |-> i]

\* ------------------------------------------------------------ s3 config
artifactTypes ==
  [k \in { "archive", "binary", "nfpm", "checksum", "signature", "apk", "apkindex" } |->
     CASE k = "archive" -> "UploadableArchive"
       [] k = "binary" -> "UploadableBinary"
       [] k = "nfpm" -> "LinuxPackage"
       [] k = "checksum" -> "Checksum"
       [] k = "signature" -> "Signature"
       [] k = "apk" -> "APK"
       [] k = "apkindex" -> "APKIndex"]

\* mutant of KindKnown: an unknown kind name is skipped silently
KindKnownLax(k) == TRUE

KindKnown(k) == k \in DOMAIN artifactTypes

Destination(bucket, folder, kinds) ==
  [Bucket |-> bucket, Folder |-> folder, Artifacts |-> kinds]

GoodBucket == << Str("bucket") >>
BadTemplate == << Str("{{.Bad") >>
VersionFolder == << Str("releases"), Str("{{.Version}}") >>

\* the destinations a configuration is drawn from, in configuration order
DestinationCandidates ==
  << Destination(GoodBucket, << >>, << >>),
     Destination(GoodBucket, << >>, << "binary" >>),
     Destination(GoodBucket, VersionFolder, << "apk", "apkindex" >>),
     Destination(GoodBucket, VersionFolder, << "binary", "apk" >>),
     Destination(GoodBucket, VersionFolder, << "binary", "deb" >>),
     Destination(BadTemplate, VersionFolder, << "binary" >>),
     Destination(GoodBucket, BadTemplate, << "apk", "apkindex" >>) >>

AlpineRepoDir == << Str("alpine"), Str("edge"), Str("main"), Str("x86_64") >>
AlpineOutDir == DistDir \o << Str("alpine-pkg"), Str("dist"), Str("x86_64") >>

\* what the earlier stages may have left in the registry before Publish
PublishCandidates ==
  << BuiltBinary("UploadableBinary", "app", "linux", "amd64", ""),
    Artifact("APK", Str("pkg-1.2.3-r0.apk"), AlpineOutDir \o << Str("pkg-1.2.3-r0.apk") >>,
             "linux", "amd64", "", AlpineRepoDir, "x86_64"),
    Artifact("APKIndex", apkIndexFileName, AlpineOutDir \o << apkIndexFileName >>,
             "linux", "amd64", "", AlpineRepoDir, "x86_64") >>

\* ------------------------------------------------------------- Publish
\* mutant of PublishGroupLimit: a group one slot wider than ctx.Parallelism
PublishGroupLimitPlusOne == parallelism + 1

\* line 65
PublishGroupLimit == parallelism

Finished(res) ==
  /\ ppc' = "done"
  /\ pubResult' = res

\* lines 59-61
PublishEnter ==
  /\ stage = "s3" /\ ppc = "start"
  /\ IF Len(s3Cfg) = 0
       THEN Finished(SkipPub)
       ELSE ppc' = "checkpipe" /\ UNCHANGED pubResult
  /\ UNCHANGED << stage, artifacts, artifacts0, alpineVars, s3Cfg, parallelism, pubIdx,
                  outer, dpc, dres, dlist, didx, inner, upc, opened, puts, ures >>

\* lines 62-65: ctx.CheckPipe is an opaque precondition check
CheckPipe ==
  /\ stage = "s3" /\ ppc = "checkpipe"
  /\ \E ok \in BOOLEAN :
       IF ok
         THEN /\ ppc' = "sched"
              /\ outer' = GroupNew(PublishGroupLimit)
              /\ pubIdx' = 1
              /\ UNCHANGED pubResult
         ELSE /\ Finished(ErrPub({ Failure("checkpipe", 0, 0) }))
              /\ UNCHANGED << outer, pubIdx >>
  /\ UNCHANGED << stage, artifacts, artifacts0, alpineVars, s3Cfg, parallelism,
                  dpc, dres, dlist, didx, inner, upc, opened, puts, ures >>

\* lines 66-71: g.Go(upload(ctx, conf)) for the next destination
PublishGo ==
  /\ stage = "s3" /\ ppc = "sched"
  /\ GroupCanGo(outer)
  /\ outer' = GroupGo(outer)
  /\ dpc' = [dpc EXCEPT ![pubIdx] = "enter"]
  /\ pubIdx' = pubIdx + 1
  /\ ppc' = IF pubIdx = Len(s3Cfg) THEN "wait" ELSE "sched"
  /\ UNCHANGED << stage, artifacts, artifacts0, alpineVars, s3Cfg, parallelism,
                  dres, dlist, didx, inner, upc, opened, puts, ures, pubResult >>

\* line 72: Publish returns what g.Wait() returns
PublishMayReturn == GroupIdle(outer)

PublishWait ==
  /\ stage = "s3" /\ ppc = "wait"
  /\ PublishMayReturn
  /\ Finished(GroupWait(outer))
  /\ UNCHANGED << stage, artifacts, artifacts0, alpineVars, s3Cfg, parallelism, pubIdx,
                  outer, dpc, dres, dlist, didx, inner, upc, opened, puts, ures >>

\* -------------------------------------------------------------- upload
\* upload(ctx, conf) returns: its unit of the Publish group is done
Return(d, res) ==
  /\ dpc' = [dpc EXCEPT ![d] = "done"]
  /\ dres' = [dres EXCEPT ![d] = res]
  /\ outer' = GroupUnitDone(outer, res.errs)

Continue(d, p) ==
  /\ dpc' = [dpc EXCEPT ![d] = p]
  /\ UNCHANGED << dres, outer >>

\* mutant of BucketFails: the error of the bucket template is dropped
BucketNeverFails(d) == FALSE

BucketFails(d) == ApplyFails(s3Cfg[d].Bucket)

FolderFails(d) == ApplyFails(s3Cfg[d].Folder)

KindsKnown(d) == \A i \in 1..Len(s3Cfg[d].Artifacts) : KindKnown(s3Cfg[d].Artifacts[i])

\* mutant of Matches: an empty filter list selects every artifact
MatchesEverything(d, a) == TRUE

\* artifact.Or(filters...) over artifact.ByType: an artifact is selected when
\* its type is that of one of the kinds; no filter matches nothing
Matches(d, a) ==
  \E i \in 1..Len(s3Cfg[d].Artifacts) :
     /\ s3Cfg[d].Artifacts[i] \in DOMAIN artifactTypes
     /\ a.Type = artifactTypes[s3Cfg[d].Artifacts[i]]

\* mutant of Selected: the matching artifacts, last registered first
SelectedReversed(d) ==
  LET Test(a) == Matches(d, a)
      s == SelectSeq(artifacts, Test)
  IN [i \in 1..Len(s) |-> s[Len(s) + 1 - i]]

\* line 113: ctx.Artifacts.Filter(artifact.Or(filters...)).List()
Selected(d) == LET Test(a) == Matches(d, a) IN SelectSeq(artifacts, Test)

\* mutant of UploadGroupLimit: a group one slot wider than ctx.Parallelism
UploadGroupLimitPlusOne == parallelism + 1

UploadGroupLimit == parallelism

\* lines 90-112: upload up to its fan-out: the first of the three checks that
\* fails returns its error; otherwise the group is made and the artifacts selected
UploadEnter(d) ==
  /\ stage = "s3" /\ dpc[d] = "enter"
  /\ IF BucketFails(d) \/ FolderFails(d)
       THEN /\ Return(d, ErrPub({ Failure(IF BucketFails(d) THEN "bucket template"
                                                             ELSE "folder template", d, 0) }))
            /\ UNCHANGED << inner, dlist, didx >>
       ELSE IF ~KindsKnown(d)
         THEN /\ Return(d, ErrPub({ Failure("unknown artifact type", d, 0) }))
              /\ UNCHANGED << inner, dlist, didx >>
         ELSE /\ Continue(d, IF Selected(d) = << >> THEN "wait" ELSE "sched")
              /\ inner' = [inner EXCEPT ![d] = GroupNew(UploadGroupLimit)]
              /\ dlist' = [dlist EXCEPT ![d] = Selected(d)]
              /\ didx' = [didx EXCEPT ![d] = 1]
  /\ UNCHANGED << stage, artifacts, artifacts0, alpineVars, s3Cfg, parallelism, ppc,
                  pubIdx, upc, opened, puts, ures, pubResult >>

\* mutant of UploadCanGo: the units of upload take their slots from the group
\* of Publish, in which upload itself holds one
UploadCanGoShared(d) == GroupCanGo(inner[d]) /\ GroupCanGo(outer)

\* line 115: g.Go on the group upload made at line 112
UploadCanGo(d) == GroupCanGo(inner[d])

\* lines 113-134: g.Go(unit) for the next selected artifact; after the last
\* one the loop ends and upload goes on to g.Wait()
UploadGo(d) ==
  /\ stage = "s3" /\ dpc[d] = "sched"
  /\ UploadCanGo(d)
  /\ inner' = [inner EXCEPT ![d] = GroupGo(@)]
  /\ upc' = [upc EXCEPT ![d][didx[d]] = "open"]
  /\ didx' = [didx EXCEPT ![d] = @ + 1]
  /\ dpc' = [dpc EXCEPT ![d] = IF didx[d] = Len(dlist[d]) THEN "wait" ELSE "sched"]
  /\ UNCHANGED << stage, artifacts, artifacts0, alpineVars, s3Cfg, parallelism, ppc,
                  pubIdx, outer, dres, dlist, opened, puts, ures, pubResult >>

\* mutant of UploadMayReturn: upload returns after its loop without g.Wait()
UploadReturnsAtOnce(d) == TRUE

\* line 135: upload returns what g.Wait() returns
UploadMayReturn(d) == GroupIdle(inner[d])

UploadWait(d) ==
  /\ stage = "s3" /\ dpc[d] = "wait"
  /\ UploadMayReturn(d)
  /\ Return(d, GroupWait(inner[d]))
  /\ UNCHANGED << stage, artifacts, artifacts0, alpineVars, s3Cfg, parallelism, ppc,
                  pubIdx, dlist, didx, inner, upc, opened, puts, ures, pubResult >>

\* ------------------------------------------------------ one upload unit
bucket(d) == Apply(s3Cfg[d].Bucket)
folder(d) == Apply(s3Cfg[d].Folder)

\* mutant of Key: the key without the artifact's repo sub-path
KeyWithoutRepoDir(d, a) == Join(<< folder(d), AsPath(a.Name) >>)

\* line 120
Key(d, a) == Join(<< folder(d), a.RepoDir, AsPath(a.Name) >>)

PutObject(d, i) ==
  [dest |-> d, unit |-> i, Bucket |-> bucket(d), Key |-> Key(d, dlist[d][i]),
   Body |-> dlist[d][i].Path]

\* mutant of UnitError: the unit logs its failure and returns nil
UnitErrorSwallowed(kind, d, i) == {}

\* what the unit returns to its group
UnitError(kind, d, i) == { Failure(kind, d, i) }

UnitReturn(d, i, errs) ==
  /\ upc' = [upc EXCEPT ![d][i] = "done"]
  /\ inner' = [inner EXCEPT ![d] = GroupUnitDone(@, errs)]

\* lines 116-131: os.Open, then the PutObject call starts
UnitOpen(d, i) ==
  /\ stage = "s3" /\ upc[d][i] = "open"
  /\ opened' = opened \cup { << d, i >> }
  /\ \E ok \in BOOLEAN :
       IF ok
         THEN /\ upc' = [upc EXCEPT ![d][i] = "put"]
              /\ puts' = puts \cup { PutObject(d, i) }
              /\ UNCHANGED << inner, ures >>
         ELSE /\ UnitReturn(d, i, UnitError("open", d, i))
              /\ ures' = [ures EXCEPT ![d][i] = "open failed"]
              /\ UNCHANGED puts
  /\ UNCHANGED << stage, artifacts, artifacts0, alpineVars, s3Cfg, parallelism, ppc,
                  pubIdx, outer, dpc, dres, dlist, didx, pubResult >>

\* lines 126-132: the PutObject call returns
UnitPut(d, i) ==
  /\ stage = "s3" /\ upc[d][i] = "put"
  /\ \E ok \in BOOLEAN :
       /\ UnitReturn(d, i, IF ok THEN {} ELSE UnitError("put", d, i))
       /\ ures' = [ures EXCEPT ![d][i] = IF ok THEN "uploaded" ELSE "put failed"]
  /\ UNCHANGED << stage, artifacts, artifacts0, alpineVars, s3Cfg, parallelism, ppc,
                  pubIdx, outer, dpc, dres, dlist, didx, opened, puts, pubResult >>

S3Next ==
  \/ PublishEnter \/ CheckPipe \/ PublishGo \/ PublishWait
  \/ \E d \in DestIds :
       \/ UploadEnter(d) \/ UploadGo(d) \/ UploadWait(d)
       \/ \E i \in UnitIds : UnitOpen(d, i) \/ UnitPut(d, i)

AlpineIdle ==
  /\ alpineCfg = << >>
  /\ pubKeyPath = << >>
  /\ privKeyPath = << >>
  /\ pc = "off"
  /\ specIdx = 0
  /\ binIdx = 0
  /\ binList = << >>
  /\ dirs = {}
  /\ files = {}
  /\ toolLog = << >>
  /\ runResult = NoResult

S3Idle(p) ==
  /\ ppc = p
  /\ pubIdx = 0
  /\ outer = GroupNew(0)
  /\ dpc = [d \in DestIds |-> "idle"]
  /\ dres = [d \in DestIds |-> NoPub]
  /\ dlist = [d \in DestIds |-> << >>]
  /\ didx = [d \in DestIds |-> 0]
  /\ inner = [d \in DestIds |-> GroupNew(0)]
  /\ upc = [d \in DestIds |-> [i \in UnitIds |-> "none"]]
  /\ opened = {}
  /\ puts = {}
  /\ ures = [d \in DestIds |-> [i \in UnitIds |-> "none"]]
  /\ pubResult = NoPub

InitAlpine ==
  /\ stage = "alpine"
  /\ artifacts \in SubSeqsUpTo(BinaryCandidates, MaxArtifacts)
  /\ artifacts0 = artifacts
  /\ alpineCfg \in SeqsUpTo(AlpineCandidates, MaxSpecs)
  /\ pubKeyPath \in KeyPaths
  /\ privKeyPath \in KeyPaths
  /\ pc = "default"
  /\ specIdx = 0
  /\ binIdx = 0
  /\ binList = << >>
  /\ dirs = {}
  /\ files = {}
  /\ toolLog = << >>
  /\ runResult = NoResult
  /\ s3Cfg = << >>
  /\ parallelism = 1
  /\ S3Idle("off")

InitS3 ==
  /\ stage = "s3"
  /\ artifacts \in SubSeqsUpTo(PublishCandidates, MaxArtifacts)
  /\ artifacts0 = artifacts
  /\ s3Cfg \in SubSeqsUpTo(DestinationCandidates, MaxDest)
  /\ parallelism \in 1..MaxParallelism
  /\ AlpineIdle
  /\ S3Idle("start")

Init == InitAlpine \/ InitS3

Next == AlpineNext \/ S3Next

Spec == Init /\ [][Next]_vars

\* ================================================================ claims
Dests == 1..Len(s3Cfg)
Units(d) == 1..Len(dlist[d])

TemplatesResolve(d) == ~ApplyFails(s3Cfg[d].Bucket) /\ ~ApplyFails(s3Cfg[d].Folder)
UnknownKindIn(d) ==
  \E i \in 1..Len(s3Cfg[d].Artifacts) : s3Cfg[d].Artifacts[i] \notin DOMAIN artifactTypes
PutsOf(d) == { p \in puts : p.dest = d }
OpenedOf(d) == { o \in opened : o[1] = d }
FailedUnits(d) == { i \in Units(d) : ures[d][i] \in { "open failed", "put failed" } }
\* upload(conf) of destination d went through its fan-out and returned
FanOutReturned(d) == dpc[d] = "done" /\ TemplatesResolve(d) /\ ~UnknownKindIn(d)

\* C1: when m >= 1 of the n units of a destination's fan-out fail (open or
\* upload error), upload returns a non-nil error naming each failure, and
\* every other unit has opened its file, made its upload call and returned.
C1_PartialFailure ==
  \A d \in Dests :
    FanOutReturned(d) =>
      /\ FailedUnits(d) # {} =>
           /\ dres[d].kind = "err"
           /\ \A i \in FailedUnits(d) : \E f \in dres[d].errs : f.dest = d /\ f.unit = i
      /\ \A i \in Units(d) \ FailedUnits(d) :
           /\ upc[d][i] = "done"
           /\ ures[d][i] = "uploaded"
           /\ \E p \in PutsOf(d) : p.unit = i

C1_Witness ==
  \E d \in Dests :
    /\ FanOutReturned(d)
    /\ Len(dlist[d]) >= 2
    /\ ures[d][1] = "open failed"
    /\ ures[d][2] = "uploaded"

UnknownTypeError(d) == ErrPub({ Failure("unknown artifact type", d, 0) })
CheckPipePassed == Failure("checkpipe", 0, 0) \notin pubResult.errs

\* C2 as stated: once Publish has returned with some destination listing an
\* unknown kind name, its error holds the unknown-artifact-type error and no
\* upload call at all was made, whatever the number of destinations.
C2_Original ==
  (ppc = "done" /\ CheckPipePassed /\ \E d \in Dests : UnknownKindIn(d)) =>
     /\ \E d \in Dests : UnknownTypeError(d).errs \subseteq pubResult.errs
     /\ puts = {}

\* C2 amended: a destination that lists an unknown kind name never has a
\* file opened or an upload call made for it; when its templates resolve its
\* upload returns the unknown-artifact-type error, and Publish (its
\* precondition check passed) returns a non-nil error, which with a single
\* destination is that error with no upload call made at all.  Uploads of
\* the other destinations are not held back.
C2_UnknownKind ==
  \A d \in Dests :
    UnknownKindIn(d) =>
      /\ PutsOf(d) = {} /\ OpenedOf(d) = {}
      /\ (dpc[d] = "done" /\ TemplatesResolve(d)) => dres[d] = UnknownTypeError(d)
      /\ (ppc = "done" /\ CheckPipePassed) =>
           /\ pubResult.kind = "err"
           /\ (Len(s3Cfg) = 1 /\ TemplatesResolve(d)) =>
                pubResult = UnknownTypeError(d) /\ puts = {}

C2_Witness ==
  /\ ppc = "done" /\ pubResult.kind = "err"
  /\ \E d \in Dests : UnknownKindIn(d) /\ dres[d] = UnknownTypeError(d)
  /\ \E p \in puts : ~UnknownKindIn(p.dest) /\ ures[p.dest][p.unit] = "uploaded"

\* C3: with a package spec configured and the public or the private key path
\* missing, the workflow ends with ErrNoAlpineKeys and never invokes a tool,
\* selects a binary or creates a directory.
C3_MissingKeys ==
  (stage = "alpine" /\ Len(alpineCfg) >= 1 /\ (pubKeyPath = << >> \/ privKeyPath = << >>)) =>
     /\ toolLog = << >>
     /\ dirs = {} /\ files = {} /\ binList = << >>
     /\ artifacts = artifacts0
     /\ pc \in { "default", "done" }
     /\ pc = "done" => runResult = ErrResult("ErrNoAlpineKeys", 0, 0)

C3_Witness ==
  /\ stage = "alpine" /\ pc = "done"
  /\ Len(alpineCfg) = 2
  /\ pubKeyPath # << >> /\ privKeyPath = << >>
  /\ runResult.kind = "err"
  /\ Len(SelectSeq(artifacts, Eligible)) >= 1
\* the chains of a run: (package spec, eligible binary), in the order Run takes them
EligibleBins == SelectSeq(artifacts0, Eligible)
Chains == { c \in (1..Len(alpineCfg)) \X (1..Len(EligibleBins)) : TRUE }
Before(c1, c2) == c1[1] < c2[1] \/ (c1[1] = c2[1] /\ c1[2] < c2[2])
ToolEntries == 1..Len(toolLog)
SignedChain(c) ==
  \E j \in ToolEntries :
    toolLog[j].tool = "abuild-sign" /\ toolLog[j].ok /\ toolLog[j].spec = c[1] /\ toolLog[j].bin = c[2]
Added == (Len(artifacts0) + 1)..Len(artifacts)
ChainFailed == stage = "alpine" /\ pc = "done" /\ runResult.kind = "err" /\ runResult.bin > 0
FailedChain == << runResult.spec, runResult.bin >>

\* C4 as stated: after a failure in one chain, every other chain of the run
\* has still run to completion (its index was signed).
C4_Original ==
  ChainFailed => \A c \in Chains : c # FailedChain => SignedChain(c)

\* C4 amended: the first failure in a chain ends Run: the chains before it
\* completed, no later chain (of a later binary or a later package spec) has
\* started, the failed step is the last thing done, the registrations made
\* before it stay, and the returned error is that one failure.
C4_FirstFailureStops ==
  ChainFailed =>
    /\ FailedChain = << specIdx, binIdx >> /\ FailedChain \in Chains
    /\ \A c \in Chains : Before(c, FailedChain) => SignedChain(c)
    /\ \A j \in ToolEntries :
         /\ ~Before(FailedChain, << toolLog[j].spec, toolLog[j].bin >>)
         /\ j < Len(toolLog) => toolLog[j].ok
    /\ runResult.step \in { "abuild", "abuild-sign" } =>
         /\ toolLog # << >>
         /\ toolLog[Len(toolLog)].tool = runResult.step
         /\ ~toolLog[Len(toolLog)].ok
    /\ Len(artifacts) - Len(artifacts0) =
         2 * Cardinality({ c \in Chains : Before(c, FailedChain) })
           + (IF runResult.step = "abuild-sign" THEN 1 ELSE 0)
    /\ SubSeq(artifacts, 1, Len(artifacts0)) = artifacts0

C4_Witness ==
  /\ ChainFailed
  /\ FailedChain = << 1, 2 >>
  /\ Len(alpineCfg) = 2
  /\ SignedChain(<< 1, 1 >>)
  /\ ~SignedChain(<< 2, 1 >>)

\* the tool invocations an added artifact's path points back to
OutDirOf(a) == Dir(a.Path)
SignedFor(a) ==
  \E j \in ToolEntries :
    /\ toolLog[j].tool = "abuild-sign" /\ toolLog[j].ok
    /\ toolLog[j].args = Pwd \o OutDirOf(a) \o << apkIndexFileName >>
BuiltFor(a) ==
  \E j \in ToolEntries :
    /\ toolLog[j].tool = "abuild" /\ toolLog[j].ok
    /\ toolLog[j].args = Pwd \o SubSeq(a.Path, 1, Len(a.Path) - 3)
    /\ Str(toolLog[j].env) = a.Path[Len(a.Path) - 1]

\* C5 as stated: in every state, an artifact added by Run (package or
\* index) has had its index signed successfully.
C5_Original ==
  stage = "alpine" => \A k \in Added : SignedFor(artifacts[k])

\* C5 amended: the order per pair is build tool -> package registered ->
\* signing tool -> index registered.  An added package artifact implies a
\* successful build for its pair; an added index artifact implies a
\* successful signing, and its package is registered right before it; the
\* signing tool only runs after a successful build of the same pair.
C5_BuildSignRegister ==
  stage = "alpine" =>
    /\ \A k \in Added :
         /\ artifacts[k].Type \in { "APK", "APKIndex" }
         /\ BuiltFor(artifacts[k])
         /\ artifacts[k].Type = "APKIndex" =>
              /\ SignedFor(artifacts[k])
              /\ k - 1 \in Added
              /\ artifacts[k - 1].Type = "APK"
              /\ OutDirOf(artifacts[k - 1]) = OutDirOf(artifacts[k])
    /\ \A j \in ToolEntries :
         toolLog[j].tool = "abuild-sign" =>
           /\ j > 1
           /\ toolLog[j - 1].tool = "abuild" /\ toolLog[j - 1].ok
           /\ toolLog[j - 1].spec = toolLog[j].spec /\ toolLog[j - 1].bin = toolLog[j].bin

C5_Witness ==
  /\ stage = "alpine" /\ pc = "done" /\ runResult.step = "abuild-sign"
  /\ Len(artifacts) > Len(artifacts0)
  /\ artifacts[Len(artifacts)].Type = "APK"
  /\ ~SignedFor(artifacts[Len(artifacts)])
  /\ \E k \in Added : artifacts[k].Type = "APKIndex"

Triple(a) == << a.Type, a.Name, a.Goarch >>

\* C6 as stated: no two artifacts added by one Run share (type, name, arch).
C6_Original ==
  stage = "alpine" =>
    \A i, j \in Added : i # j => Triple(artifacts[i]) # Triple(artifacts[j])

\* C6 amended: starting from an empty output directory, no two artifacts
\* added by one Run share (type, name, arch, path), and no two package
\* artifacts share (type, name, arch); two added artifacts with the same
\* (type, name, arch) are the indexes of two package specs with different
\* working directories.
C6_UniquePerRun ==
  stage = "alpine" =>
    \A i, j \in Added :
      (i # j /\ Triple(artifacts[i]) = Triple(artifacts[j])) =>
         /\ artifacts[i].Type = "APKIndex"
         /\ artifacts[i].Path # artifacts[j].Path
         /\ artifacts[i].Path[2] # artifacts[j].Path[2]

C6_Witness ==
  /\ stage = "alpine" /\ pc = "done" /\ runResult.kind = "nil"
  /\ \E i, j \in Added : i # j /\ Triple(artifacts[i]) = Triple(artifacts[j])
  /\ \E i, j \in Added :
       /\ i # j /\ artifacts[i].Type = "APK" /\ artifacts[j].Type = "APK"
       /\ artifacts[i].Goarch = artifacts[j].Goarch

Executing(d) == { i \in UnitIds : upc[d][i] \in { "open", "put" } }
ExecutingUploads == { d \in DestIds : dpc[d] \notin { "idle", "done" } }

\* C7: neither the task group of Publish nor the task group of any upload
\* ever has more than Parallelism of its units executing; a unit is started
\* only while fewer than Parallelism are.
C7_Ceiling ==
  stage = "s3" =>
    /\ Cardinality(ExecutingUploads) <= parallelism
    /\ \A d \in DestIds : Cardinality(Executing(d)) <= parallelism

\* a group at its ceiling with a further unit held back
C7_Witness ==
  \E d \in Dests :
    /\ dpc[d] = "sched"
    /\ didx[d] <= Len(dlist[d])
    /\ Cardinality(Executing(d)) = parallelism
    /\ ~ENABLED UploadGo(d)

\* C8: with no destination configured Publish returns the skip outcome
\* without checking the pipe, creating a group, opening a file or
\* uploading; with no package spec configured Run returns the skip outcome
\* without selecting binaries, touching the disk, invoking a tool or adding
\* an artifact.  The skip outcome is neither nil nor an error and is
\* returned in no other case.
C8_NotConfigured ==
  /\ (stage = "s3" /\ Len(s3Cfg) = 0) =>
       /\ ppc \in { "start", "done" }
       /\ ppc = "done" => pubResult = SkipPub
       /\ outer = GroupNew(0) /\ pubIdx = 0
       /\ puts = {} /\ opened = {}
       /\ \A d \in DestIds : dpc[d] = "idle"
  /\ (stage = "alpine" /\ Len(alpineCfg) = 0) =>
       /\ pc \in { "default", "run", "done" }
       /\ pc = "done" => runResult.kind = "skip"
       /\ toolLog = << >> /\ dirs = {} /\ files = {} /\ binList = << >>
       /\ artifacts = artifacts0
  /\ pubResult.kind = "skip" => Len(s3Cfg) = 0
  /\ runResult.kind = "skip" => Len(alpineCfg) = 0
  /\ SkipPub \notin { NilPub, NoPub } /\ SkipPub.kind # "err"
  /\ \A w \in { "alpine section is not configured" } :
       SkipResult(w) # NilResult /\ SkipResult(w).kind # "err"

C8_Witness ==
  \/ stage = "s3" /\ ppc = "done" /\ Len(s3Cfg) = 0 /\ Len(artifacts) = 2
  \/ stage = "alpine" /\ pc = "done" /\ Len(alpineCfg) = 0 /\ Len(EligibleBins) = 2

NoneMatches(d) ==
  \A k \in 1..Len(artifacts) :
    \A i \in 1..Len(s3Cfg[d].Artifacts) :
      s3Cfg[d].Artifacts[i] \in DOMAIN artifactTypes =>
        artifacts[k].Type # artifactTypes[s3Cfg[d].Artifacts[i]]

\* C9: a destination whose templates resolve, whose kind names are valid
\* and whose type filter matches no registry artifact (an empty kind list
\* included) has no file opened and no upload call, and its upload returns
\* nil; when every destination is like that, Publish returns nil.
C9_NothingMatches ==
  /\ \A d \in Dests :
       (TemplatesResolve(d) /\ ~UnknownKindIn(d) /\ NoneMatches(d)) =>
          /\ PutsOf(d) = {} /\ OpenedOf(d) = {}
          /\ dpc[d] = "done" => dres[d] = NilPub
  /\ (ppc = "done" /\ CheckPipePassed /\ Len(s3Cfg) > 0
        /\ \A d \in Dests : TemplatesResolve(d) /\ ~UnknownKindIn(d) /\ NoneMatches(d)) =>
       pubResult = NilPub /\ puts = {}

C9_Witness ==
  /\ ppc = "done" /\ pubResult = NilPub /\ Len(s3Cfg) = 2 /\ Len(artifacts) = 2
  /\ s3Cfg[1].Artifacts = << >>
  /\ s3Cfg[2].Artifacts # << >>
  /\ \A d \in Dests : NoneMatches(d)

\* C10: a destination whose bucket or folder template does not resolve has
\* no file opened and no upload call made for it, and its upload returns
\* the template error.
C10_TemplateFailure ==
  \A d \in Dests :
    (ApplyFails(s3Cfg[d].Bucket) \/ ApplyFails(s3Cfg[d].Folder)) =>
       /\ PutsOf(d) = {} /\ OpenedOf(d) = {}
       /\ dlist[d] = << >>
       /\ dpc[d] \in { "idle", "enter", "done" }
       /\ dpc[d] = "done" =>
            dres[d] = ErrPub({ Failure(IF ApplyFails(s3Cfg[d].Bucket) THEN "bucket template"
                                                                      ELSE "folder template", d, 0) })

C10_Witness ==
  /\ ppc = "done"
  /\ \E d \in Dests :
       /\ ApplyFails(s3Cfg[d].Folder) /\ ~ApplyFails(s3Cfg[d].Bucket)
       /\ dres[d].kind = "err"
       /\ \E k \in 1..Len(artifacts) : Matches(d, artifacts[k])
  /\ \E d \in Dests : ApplyFails(s3Cfg[d].Bucket) /\ dres[d].kind = "err"

\* Run is past the selection of line 77-83 of some package spec
RunSteps == { "getwd", "mkdirall", "genbuild", "writefile", "lookpath", "loop", "mkdir",
              "open", "create", "copy", "abuild", "addapk", "sign", "addindex" }
Selecting ==
  /\ stage = "alpine"
  /\ \/ pc \in RunSteps
     \/ pc = "done" /\ runResult.kind = "nil"
     \/ pc = "done" /\ runResult.kind = "err" /\ runResult.step # "ErrNoAlpineKeys"
     \/ pc = "filter" /\ specIdx > 1
IsUploadableInput(a) == a.Type = "UploadableBinary" /\ a.Goos = "linux" /\ a.Goarm = ""
IsBuiltInput(a) == a.Type = "Binary" /\ a.Goos = "linux" /\ a.Goarm = ""
BuiltInputs == SelectSeq(artifacts0, IsBuiltInput)
\* the files copied into an architecture-scoped directory
CopiedFiles == { f \in files : Base(f) # apkBuildFileName }
ArchTable(arch) == IF arch = "386" THEN "x86" ELSE IF arch = "amd64" THEN "x86_64" ELSE arch

\* C11 as stated: the build inputs of a package spec are exactly the registry
\* artifacts of kind uploadable-binary, OS linux and empty ARM variant.
C11_Original ==
  Selecting => binList = SelectSeq(artifacts0, IsUploadableInput)

\* C11 amended: the build inputs are exactly the registry artifacts of kind
\* (generic) binary, OS linux and empty ARM variant, in registration order;
\* only those are copied or named in a build-tool invocation, so an artifact
\* of another kind (uploadable-binary included), another OS or with an ARM
\* variant never is.
C11_BinarySelection ==
  Selecting =>
    /\ binList = BuiltInputs
    /\ \A j \in ToolEntries :
         /\ toolLog[j].bin \in 1..Len(BuiltInputs)
         /\ toolLog[j].tool = "abuild" =>
              toolLog[j].env = ArchTable(BuiltInputs[toolLog[j].bin].Goarch)
    /\ \A f \in CopiedFiles :
         \E b \in 1..Len(BuiltInputs) :
           /\ Base(f) = Base(BuiltInputs[b].Path)
           /\ f[Len(f) - 1] = Str(ArchTable(BuiltInputs[b].Goarch))

C11_Witness ==
  /\ stage = "alpine" /\ pc = "done" /\ runResult.kind = "nil"
  /\ Len(artifacts0) = 2
  /\ artifacts0[1].Type = "Binary" /\ artifacts0[2].Type = "UploadableBinary"
  /\ IsUploadableInput(artifacts0[2])
  /\ binList = << artifacts0[1] >>
  /\ \E j \in ToolEntries : toolLog[j].tool = "abuild" /\ toolLog[j].ok
  /\ CopiedFiles # {}

Last(p) == p[Len(p)]
ArchNames == { "386", "amd64", "arm64", "arm", "mips64le" }
ArchDirs == { d \in dirs : Len(d) = 3 }
AbuildEntries == { j \in ToolEntries : toolLog[j].tool = "abuild" }

\* C12: the architecture name is translated by the fixed table 386 -> x86,
\* amd64 -> x86_64, anything else unchanged, and the translated name is the
\* CBUILD override of every build-tool invocation, the last component of
\* every architecture-scoped directory, the last component of the repo
\* sub-path and the AlpineArch metadata of every artifact Run adds.
C12_ArchTranslation ==
  /\ \A a \in ArchNames : Translate(a) = ArchTable(a)
  /\ stage = "alpine" =>
       /\ \A j \in AbuildEntries :
            /\ toolLog[j].bin \in 1..Len(binList)
            /\ toolLog[j].env = ArchTable(binList[toolLog[j].bin].Goarch)
       /\ \A d \in ArchDirs :
            \E b \in 1..Len(binList) : Last(d) = Str(ArchTable(binList[b].Goarch))
       /\ pc \in { "open", "create", "copy", "abuild", "addapk", "sign", "addindex" } =>
            localPath \o << Str(ArchTable(Bin.Goarch)) >> \in dirs
       /\ \A k \in Added :
            /\ artifacts[k].Extra = ArchTable(artifacts[k].Goarch)
            /\ Last(artifacts[k].RepoDir) = Str(ArchTable(artifacts[k].Goarch))
            /\ artifacts[k].Path[Len(artifacts[k].Path) - 1] = Str(ArchTable(artifacts[k].Goarch))

C12_Witness ==
  /\ stage = "alpine" /\ pc = "done" /\ runResult.kind = "nil"
  /\ \E k \in Added : artifacts[k].Goarch = "386" /\ artifacts[k].Extra = "x86"
  /\ \E k \in Added : artifacts[k].Goarch = "arm64" /\ artifacts[k].Extra = "arm64"
  /\ \E j \in AbuildEntries : toolLog[j].env = "x86"
  /\ \E d \in ArchDirs : Last(d) = Str("x86")

\* filepath.Join of the three parts of line 120, an empty part left out
ExpectedKey(sub, a) ==
  sub \o a.RepoDir \o (IF a.Name = EmptyStr THEN << >> ELSE << a.Name >>)
\* the artifact a PutObject call was made for
PutArtifact(p) == dlist[p.dest][p.unit]

\* C13: the key of every upload call is the path join of the destination's
\* resolved folder, the artifact's repo sub-path and the artifact's name,
\* an empty part contributing nothing; the bucket is the resolved bucket
\* and the body the artifact's file.
C13_RemoteKey ==
  \A p \in puts :
    /\ p.dest \in Dests /\ p.unit \in Units(p.dest)
    /\ p.Key = ExpectedKey(Apply(s3Cfg[p.dest].Folder), PutArtifact(p))
    /\ p.Bucket = Apply(s3Cfg[p.dest].Bucket)
    /\ p.Body = PutArtifact(p).Path

\* folder "releases/{{.Version}}" with an artifact without repo sub-path
\* and with one that has a repo sub-path; an empty folder
C13_Witness ==
  /\ \E p \in puts :
       /\ PutArtifact(p).RepoDir = << >>
       /\ p.Key = << Str("releases"), Str("1.2.3"), Str("app") >>
  /\ \E p \in puts :
       /\ PutArtifact(p).RepoDir # << >>
       /\ p.Key = << Str("releases"), Str("1.2.3") >> \o AlpineRepoDir \o << PutArtifact(p).Name >>
  /\ \E p \in puts :
       /\ s3Cfg[p.dest].Folder = << >>
       /\ p.Key = << Str("app") >>

AfterWrite == { "lookpath", "loop", "mkdir", "open", "create", "copy", "abuild",
                "addapk", "sign", "addindex" }
Descriptor(dir) == dir \o << apkBuildFileName >>

\* C14: Run goes past the write of a package spec's build descriptor only
\* when the write succeeded: it looks up or invokes the build tool, invokes
\* the signing tool or registers an artifact for a spec only with that
\* spec's descriptor written to its working directory.
C14_WriteFailureStops ==
  stage = "alpine" =>
    /\ pc \in AfterWrite => Descriptor(localPath) \in files
    /\ \A j \in ToolEntries : Descriptor(toolLog[j].dir) \in files
    /\ \A k \in Added : Descriptor(SubSeq(artifacts[k].Path, 1, 2)) \in files

Started(d) == { i \in UnitIds : upc[d][i] # "none" }
StillExecuting == { di \in DestIds \X UnitIds : upc[di[1]][di[2]] \in { "open", "put" } }

\* C15: when Publish has returned (nil, error or skip), no upload unit of
\* any destination is executing and no upload of a destination is under
\* way: every unit that was started has finished; the same holds of one
\* destination's upload when it has returned.
C15_WaitsForUnits ==
  /\ ppc = "done" =>
       /\ StillExecuting = {}
       /\ \A d \in DestIds : dpc[d] \in { "idle", "done" }
       /\ \A d \in DestIds : \A i \in Started(d) : upc[d][i] = "done" /\ ures[d][i] # "none"
  /\ \A d \in DestIds :
       dpc[d] = "done" => \A i \in Started(d) : upc[d][i] = "done" /\ ures[d][i] # "none"

C15_Witness ==
  /\ ppc = "done" /\ pubResult.kind = "err"
  /\ Len(s3Cfg) = 2
  /\ \A d \in Dests : Cardinality(Started(d)) >= 1
  /\ \E d \in Dests : \E i \in Started(d) : ures[d][i] = "put failed"
  /\ \E d \in Dests : \A i \in Started(d) : ures[d][i] = "uploaded"

KindTypes(d) ==
  { artifactTypes[k] : k \in { s3Cfg[d].Artifacts[i] : i \in 1..Len(s3Cfg[d].Artifacts) }
                               \cap DOMAIN artifactTypes }
ExpectedUnits(d) == LET Test(a) == a.Type \in KindTypes(d) IN SelectSeq(artifacts, Test)
PastSelection(d) ==
  TemplatesResolve(d) /\ ~UnknownKindIn(d) /\ dpc[d] \in { "sched", "wait", "done" }

\* C16: for a destination whose templates resolve and whose kind names are
\* valid, the units of its fan-out are the registry artifacts whose type is
\* among the configured kinds, each once, in registration order, and are
\* started in that order; no other artifact gets a unit, and no unit makes
\* more than one upload call.
C16_OneUnitPerMatch ==
  \A d \in Dests :
    PastSelection(d) =>
      /\ dlist[d] = ExpectedUnits(d)
      /\ \A i, j \in Units(d) : i # j => dlist[d][i] # dlist[d][j]
      /\ Started(d) = 1..(didx[d] - 1)
      /\ Started(d) \subseteq Units(d)
      /\ dpc[d] \in { "wait", "done" } => Started(d) = Units(d)
      /\ \A p, q \in PutsOf(d) : p.unit = q.unit => p = q
      /\ \A p \in PutsOf(d) : p.unit \in Started(d)

C16_Witness ==
  /\ ppc = "done" /\ Len(artifacts) = 2
  /\ \E d \in Dests :
       /\ Len(dlist[d]) = 2 /\ Cardinality(PutsOf(d)) = 2
       /\ dlist[d][1].Type = "UploadableBinary"
  /\ \E d \in Dests :
       /\ PastSelection(d) /\ Len(dlist[d]) = 1 /\ Cardinality(PutsOf(d)) = 1
       /\ dlist[d][1] = artifacts[1]
       /\ ~Matches(d, artifacts[2])

\* the position in the registry of the package artifact of chain (s, b)
ChainSlot(s, b) == Len(artifacts0) + 2 * ((s - 1) * Len(BuiltInputs) + (b - 1)) + 1
ExpectedRepoDir(s, b) ==
  << alpineCfg[s].Root, alpineCfg[s].Branch, alpineCfg[s].Repository,
     Str(ArchTable(BuiltInputs[b].Goarch)) >>
GainedOk(a, type, s, b) ==
  /\ a.Type = type
  /\ a.Goos = "linux"
  /\ a.Goarch = BuiltInputs[b].Goarch
  /\ a.Goarm = ""
  /\ a.RepoDir = ExpectedRepoDir(s, b)

\* C17: when Run has returned nil, the registry is the registry Run found,
\* unchanged and in order, followed for every package spec and every
\* selected binary (spec by spec, binary by binary) by one package artifact
\* and right after it one index artifact, both with OS linux, the binary's
\* architecture, no ARM variant and the repo sub-path root/branch/
\* sub-repository/translated architecture; nothing else was added.
C17_NilRunGains ==
  (stage = "alpine" /\ pc = "done" /\ runResult.kind = "nil") =>
    /\ SubSeq(artifacts, 1, Len(artifacts0)) = artifacts0
    /\ Len(artifacts) = Len(artifacts0) + 2 * Len(alpineCfg) * Len(BuiltInputs)
    /\ \A s \in 1..Len(alpineCfg) : \A b \in 1..Len(BuiltInputs) :
         /\ GainedOk(artifacts[ChainSlot(s, b)], "APK", s, b)
         /\ GainedOk(artifacts[ChainSlot(s, b) + 1], "APKIndex", s, b)
         /\ OutDirOf(artifacts[ChainSlot(s, b)]) = OutDirOf(artifacts[ChainSlot(s, b) + 1])

C17_Witness ==
  /\ stage = "alpine" /\ pc = "done" /\ runResult.kind = "nil"
  /\ Len(alpineCfg) = 2 /\ Len(BuiltInputs) = 2
  /\ Len(artifacts) = Len(artifacts0) + 8
  /\ alpineCfg[1].Root # alpineCfg[2].Root

\* the upload calls that were made and have not returned
InFlight == { di \in DestIds \X UnitIds : upc[di[1]][di[2]] = "put" }
InFlightOf(d) == { di \in InFlight : di[1] = d }
Uploading == { d \in DestIds : InFlightOf(d) # {} }
Min(a, b) == IF a <= b THEN a ELSE b

\* C18 as stated: the upload calls in flight, summed over the destinations,
\* never exceed Parallelism.
C18_Original ==
  stage = "s3" => Cardinality(InFlight) <= parallelism

\* C18 amended: the ceiling holds per task group: at most Parallelism
\* upload calls are in flight per destination and at most Parallelism
\* destinations upload at once, so the total never exceeds Parallelism times
\* min(Parallelism, number of destinations).
C18_PerGroupTotal ==
  stage = "s3" =>
    /\ \A d \in DestIds : Cardinality(InFlightOf(d)) <= parallelism
    /\ Cardinality(Uploading) <= parallelism
    /\ Cardinality(InFlight) <= parallelism * Min(parallelism, Len(s3Cfg))

C18_Witness ==
  /\ stage = "s3" /\ parallelism = 2 /\ Len(s3Cfg) = 2
  /\ Cardinality(InFlight) = 3

\* Publish under a scheduler that lets every goroutine that can take a step
\* take one eventually, and with every upload call returning: a step of
\* Publish, of an upload or of a unit that stays possible is eventually taken
PublishSpec == InitS3 /\ [][S3Next]_vars /\ WF_vars(S3Next)

\* C19: Publish eventually returns, whatever Parallelism, the destinations
\* and the matching artifacts are: the group of Publish and the groups of
\* its units never wait on each other's slots.
C19_PublishReturns == <>(ppc = "done")

\* both levels were full on the way: Parallelism 1, two destinations with
\* three units between them, every unit uploaded
C19_Witness ==
  /\ ppc = "done" /\ parallelism = 1 /\ Len(s3Cfg) = 2
  /\ Len(dlist[1]) + Len(dlist[2]) = 3
  /\ \A d \in Dests : \A i \in Units(d) : ures[d][i] = "uploaded"

BuiltChains == (1..Len(alpineCfg)) \X (1..Len(BuiltInputs))
\* the architecture-scoped working directory of a chain
WorkDirOf(c) == << alpineCfg[c[1]].Name, ArchTable(BuiltInputs[c[2]].Goarch) >>
Collides(c) == \E c2 \in BuiltChains : Before(c2, c) /\ WorkDirOf(c2) = WorkDirOf(c)
InChain == pc \in { "open", "create", "copy", "abuild", "addapk", "sign", "addindex" }

\* C20: starting from an empty output directory, no two invocations of the
\* build tool in one Run have the same working directory and architecture;
\* a binary whose architecture-scoped directory was already created in this
\* Run (same spec and architecture, or a spec of the same name) is never
\* copied, built or signed: Run ends there with the error of the directory
\* creation, never with nil, and keeps the registrations made before.
C20_OncePerWorkDir ==
  stage = "alpine" =>
    /\ \A i, j \in AbuildEntries :
         i # j => << toolLog[i].dir, toolLog[i].env >> # << toolLog[j].dir, toolLog[j].env >>
    /\ \A c \in BuiltChains :
         (Collides(c) /\ ~KeysMissing) =>
           /\ \A j \in ToolEntries : << toolLog[j].spec, toolLog[j].bin >> # c
           /\ InChain => << specIdx, binIdx >> # c
           /\ pc = "done" => runResult.kind = "err"
           /\ (pc = "done" /\ << runResult.spec, runResult.bin >> = c) =>
                /\ runResult.step = "mkdir"
                /\ SubSeq(artifacts, 1, Len(artifacts0)) = artifacts0
                /\ Len(artifacts) - Len(artifacts0) =
                     2 * Cardinality({ c2 \in BuiltChains : Before(c2, c) })

C20_Witness ==
  /\ stage = "alpine" /\ pc = "done" /\ runResult.step = "mkdir"
  /\ Collides(<< runResult.spec, runResult.bin >>)
  /\ \/ runResult.spec = 1 /\ runResult.bin = 2 /\ Len(artifacts) = Len(artifacts0) + 2
     \/ runResult.spec = 2 /\ runResult.bin = 1 /\ Len(artifacts) = Len(artifacts0) + 4
====
